---- MODULE Spec2Model ----
(***************************************************************************)
(* Test3.ipynb: falling_mass, a fixed-step integrator of a mass falling    *)
(* under gravity and quadratic drag, with its helpers                      *)
(* calculate_acceleration and update_state.                                *)
(*                                                                         *)
(* Numbers.  The notebook computes in Python floats: binary floating       *)
(* point, every operation rounded to nearest, ties to even.  A float is    *)
(* modelled as a pair <<m, e>> standing for m * 2^e, m odd (or <<0, 0>>),  *)
(* and every operation rounds its exact result to Prec significant bits.   *)
(* Prec stands for the 53 bits of binary64; the exponent is not bounded,   *)
(* as the inputs below keep every value far inside binary64's range.       *)
(* Signed zeros are not told apart (Python compares them equal).  The      *)
(* values nan, inf and -inf are <<0, 1>>, <<0, 2>> and <<0, 3>>: sign is   *)
(* numpy's, so the force it enters is a numpy float64, and a numpy float64 *)
(* divided by zero is nan or an infinity (with a warning), not a           *)
(* ZeroDivisionError.                                                      *)
(***************************************************************************)
EXTENDS Integers, Sequences, FiniteSets, TLC

\* significand width of the modelled float format
Prec == 10
\* longest recorded sequence the model follows a run to
MaxLen == 26

RECURSIVE Pow2(_)
Pow2(n) == IF n <= 0 THEN 1 ELSE 2 * Pow2(n - 1)

Abs(n) == IF n < 0 THEN -n ELSE n

Sgn(n) == IF n > 0 THEN 1 ELSE IF n < 0 THEN -1 ELSE 0

RECURSIVE BitLen(_)
BitLen(n) == IF n = 0 THEN 0 ELSE 1 + BitLen(n \div 2)

\* the unique representation of m * 2^e: m odd, or <<0, 0>>
RECURSIVE Canon(_, _)
Canon(m, e) ==
    IF m = 0 THEN <<0, 0>>
    ELSE IF Abs(m) % 2 = 0 THEN Canon(Sgn(m) * (Abs(m) \div 2), e + 1)
    ELSE <<m, e>>

\* the float nearest to m * 2^e, ties to the even significand
Round(m, e) ==
    LET n == Abs(m)
        s == BitLen(n) - Prec
    IN  IF s <= 0 THEN Canon(m, e)
        ELSE LET q == n \div Pow2(s)
                 r == n % Pow2(s)
                 half == Pow2(s - 1)
                 up == r > half \/ (r = half /\ q % 2 = 1)
             IN  Canon(Sgn(m) * (IF up THEN q + 1 ELSE q), e + s)

NaN == <<0, 1>>

PosInf == <<0, 2>>

NegInf == <<0, 3>>

IsInf(x) == x = PosInf \/ x = NegInf

IsFinite(x) == x[1] # 0 \/ x[2] = 0

\* -1, 0 or 1 for a value that is not nan
SignOf(x) == IF x = PosInf THEN 1 ELSE IF x = NegInf THEN -1 ELSE Sgn(x[1])

Inf(s) == IF s > 0 THEN PosInf ELSE NegInf

\* exponent of the leading bit of a finite x, plus one
Top(x) == x[2] + BitLen(Abs(x[1]))

FNeg(x) ==
    IF x = NaN THEN NaN
    ELSE IF IsInf(x) THEN Inf(-SignOf(x))
    ELSE <<-x[1], x[2]>>

FMul(x, y) ==
    IF x = NaN \/ y = NaN THEN NaN
    ELSE IF IsInf(x) \/ IsInf(y)
         THEN IF SignOf(x) * SignOf(y) = 0 THEN NaN ELSE Inf(SignOf(x) * SignOf(y))
    ELSE Round(x[1] * y[1], x[2] + y[2])

\* x + y; an operand more than Prec + 2 binades below the other cannot
\* change the rounded result
FAdd(x, y) ==
    IF x = NaN \/ y = NaN THEN NaN
    ELSE IF IsInf(x) /\ IsInf(y) THEN (IF x = y THEN x ELSE NaN)
    ELSE IF IsInf(x) THEN x
    ELSE IF IsInf(y) THEN y
    ELSE IF x[1] = 0 THEN y
    ELSE IF y[1] = 0 THEN x
    ELSE IF Top(x) - Top(y) >= Prec + 3 THEN x
    ELSE IF Top(y) - Top(x) >= Prec + 3 THEN y
    ELSE LET e == IF x[2] < y[2] THEN x[2] ELSE y[2]
         IN  Round(x[1] * Pow2(x[2] - e) + y[1] * Pow2(y[2] - e), e)

FSub(x, y) == FAdd(x, FNeg(y))

\* x / y, the dividend a numpy float64: division by zero gives nan or an
\* infinity; otherwise the quotient to Prec + 2 bits and a sticky bit, rounded
FDiv(x, y) ==
    LET n1 == Abs(x[1])
        n2 == Abs(y[1])
        s0 == Prec + 2 + BitLen(n2) - BitLen(n1)
        s == IF s0 < 0 THEN 0 ELSE s0
        q == (n1 * Pow2(s)) \div n2
        r == (n1 * Pow2(s)) % n2
        sticky == IF r = 0 THEN 0 ELSE 1
    IN  IF x = NaN \/ y = NaN THEN NaN
        ELSE IF IsInf(x) THEN (IF IsInf(y) THEN NaN
                               ELSE Inf(SignOf(x) * (IF SignOf(y) < 0 THEN -1 ELSE 1)))
        ELSE IF IsInf(y) THEN <<0, 0>>
        ELSE IF y[1] = 0 THEN (IF x[1] = 0 THEN NaN ELSE Inf(SignOf(x)))
        ELSE IF x[1] = 0 THEN <<0, 0>>
        ELSE Round(Sgn(x[1]) * Sgn(y[1]) * (2 * q + sticky), x[2] - y[2] - s - 1)

\* x ** 2
FSquare(x) == FMul(x, x)

\* the sign of x - y, computed exactly; 2 when x or y is nan (unordered)
FCmp(x, y) ==
    IF x = NaN \/ y = NaN THEN 2
    ELSE IF x = y THEN 0
    ELSE IF x = PosInf \/ y = NegInf THEN 1
    ELSE IF x = NegInf \/ y = PosInf THEN -1
    ELSE IF Sgn(x[1]) # Sgn(y[1]) THEN Sgn(Sgn(x[1]) - Sgn(y[1]))
    ELSE IF x[1] = 0 THEN 0
    ELSE IF Top(x) # Top(y) THEN Sgn(x[1]) * Sgn(Top(x) - Top(y))
    ELSE LET e == IF x[2] < y[2] THEN x[2] ELSE y[2]
         IN  Sgn(x[1] * Pow2(x[2] - e) - y[1] * Pow2(y[2] - e))

FLt(x, y) == FCmp(x, y) = -1

FLe(x, y) == FCmp(x, y) \in {-1, 0}

FGt(x, y) == FCmp(x, y) = 1

FAbs(x) == IF x = NaN THEN NaN ELSE IF IsInf(x) THEN PosInf ELSE <<Abs(x[1]), x[2]>>

\* the float a decimal literal n/d denotes, and the float of an integer
Lit(n, d) == FDiv(Canon(n, 0), Canon(d, 0))

Zero == <<0, 0>>

\* numpy.sign
sign(x) == IF x = NaN THEN NaN ELSE Canon(SignOf(x), 0)

Half == Lit(1, 2)

(***************************************************************************)
(* calculate_acceleration(v, k, mass, gravity)                             *)
(***************************************************************************)
force_gravity(m, g) == FMul(m, g)

\* -sign(v)*k*v**2 is ((-sign(v)) * k) * (v**2)
force_air(vel, kk) == FMul(FMul(FNeg(sign(vel)), kk), FSquare(vel))

total_force(vel, kk, m, g) == FAdd(force_gravity(m, g), force_air(vel, kk))

\* calculate_acceleration that answers gravity when mass is 0
calculate_acceleration_ZeroGuard(vel, kk, m, g) ==
    IF m = Zero THEN g ELSE FDiv(total_force(vel, kk, m, g), m)

calculate_acceleration(vel, kk, m, g) == FDiv(total_force(vel, kk, m, g), m)

(***************************************************************************)
(* update_state(t, x, v, a, dt): <<t, x, v>> after the step                *)
(***************************************************************************)
\* v*dt + (1/2)*a*(dt**2), with the velocity the step starts from
distance_moved(vel, acc, step) ==
    FAdd(FMul(vel, step), FMul(FMul(Half, acc), FSquare(step)))

\* update_state without its t += dt
update_state_NoTime(tt, x, vel, acc, step) ==
    <<tt, FAdd(x, distance_moved(vel, acc, step)), FAdd(vel, FMul(acc, step))>>

\* update_state with v -= a*dt for v += a*dt
update_state_VelMinus(tt, x, vel, acc, step) ==
    <<FAdd(tt, step), FAdd(x, distance_moved(vel, acc, step)), FSub(vel, FMul(acc, step))>>

\* update_state with v += a*dt moved before distance_moved is computed
update_state_NewVelocity(tt, x, vel, acc, step) ==
    <<FAdd(tt, step),
      FAdd(x, distance_moved(FAdd(vel, FMul(acc, step)), acc, step)),
      FAdd(vel, FMul(acc, step))>>

update_state(tt, x, vel, acc, step) ==
    <<FAdd(tt, step), FAdd(x, distance_moved(vel, acc, step)), FAdd(vel, FMul(acc, step))>>

(***************************************************************************)
(* falling_mass(initial_height, k, mass, dt)                               *)
(***************************************************************************)
VARIABLES initial_height, k, mass, dt, gravity, pc, t, h, v, a,
          time, height, velocity, result, kernel

params == <<initial_height, k, mass, dt, gravity>>

lists == <<time, height, velocity>>

vars == <<initial_height, k, mass, dt, gravity, pc, t, h, v, a,
          time, height, velocity, result, kernel>>

\* a name not bound yet
None == <<>>

\* calls of everyday size: every combination of these arguments
Heights == {Lit(1, 1), Lit(5, 1), Lit(20, 1)}

Drags == {Zero, Lit(35, 1000)}

Masses == {Lit(1, 1), Lit(2, 1), Lit(7, 1)}

Steps == {Lit(1, 10), Lit(1, 2)}

Tall == Canon(1, 20)

\* calls from a great height: <<initial_height, k, mass, dt>>
TallCalls ==
    { <<Tall, Zero, Lit(1, 1), Lit(1, 2)>>,
      <<Tall, Lit(35, 1000), Lit(1, 1), Lit(1, 2)>>,
      <<Tall, Lit(35, 1000), Lit(2, 1), Lit(1, 2)>>,
      <<Tall, Lit(20, 1), Lit(1, 1), Lit(1, 10)>> }

\* calls with mass = 0
ZeroMassCalls == {Lit(5, 1), Lit(20, 1)} \X Drags \X {Zero} \X Steps

\* calls that start on or below the ground
GroundCalls == {Zero, Lit(-5, 1)} \X Drags \X {Lit(1, 1), Lit(7, 1)} \X {Lit(1, 10)}

Calls ==
    (Heights \X Drags \X Masses \X Steps) \cup TallCalls \cup ZeroMassCalls \cup GroundCalls

(***************************************************************************)
(* The notebook session.  kernel.cell is the number of the cell whose turn *)
(* it is (cells are counted from 1, as their execution counts are),        *)
(* kernel.names the global names bound so far, kernel.outcome the          *)
(* outcome of every cell executed so far: "ok", or the name of the         *)
(* exception that ended it.  A cell that raises leaves the session alive:  *)
(* the cells after it were executed, with execution counts 6 and 7.        *)
(***************************************************************************)
\* the modules the imports of the session can find: the imports of cell 1
\* succeeded, the import of projectile_package did not
Installed == {"matplotlib", "numpy"}

\* the names bound once cells 1 and 2 are done
Defined == {"plt", "sign", "calculate_acceleration", "update_state", "falling_mass"}

\* a cell that reads the names in needs and then binds the names in binds
run_cell(kn, needs, binds) ==
    IF needs \subseteq kn.names
    THEN [cell |-> kn.cell + 1, names |-> kn.names \cup binds,
          outcome |-> Append(kn.outcome, "ok")]
    ELSE [cell |-> kn.cell + 1, names |-> kn.names,
          outcome |-> Append(kn.outcome, "NameError")]

\* a cell of from-imports out of one package, caught by try/except
import_cell_Caught(kn, package, binds) ==
    IF package \in Installed
    THEN [cell |-> kn.cell + 1, names |-> kn.names \cup binds,
          outcome |-> Append(kn.outcome, "ok")]
    ELSE [cell |-> kn.cell + 1, names |-> kn.names,
          outcome |-> Append(kn.outcome, "ok")]

\* a cell of from-imports out of one package
import_cell(kn, package, binds) ==
    IF package \in Installed
    THEN [cell |-> kn.cell + 1, names |-> kn.names \cup binds,
          outcome |-> Append(kn.outcome, "ok")]
    ELSE [cell |-> kn.cell + 1, names |-> kn.names,
          outcome |-> Append(kn.outcome, "ModuleNotFoundError")]

\* the locals of falling_mass as the loop is first reached, in a session
\* that has run the import cell and the definitions cell
Init ==
    /\ \E c \in Calls :
          /\ initial_height = c[1]
          /\ k = c[2]
          /\ mass = c[3]
          /\ dt = c[4]
    /\ gravity = Lit(-981, 100)
    /\ h = initial_height
    /\ v = Zero
    /\ t = Zero
    /\ a = None
    /\ height = <<>>
    /\ velocity = <<>>
    /\ time = <<>>
    /\ result = None
    /\ pc = "while"
    /\ kernel = [cell |-> 3, names |-> Defined, outcome |-> <<"ok", "ok">>]

\* the loop test as  while h > -1:
Test_BelowGround ==
    /\ pc = "while"
    /\ Len(time) < MaxLen \/ ~FGt(h, Lit(-1, 1))
    /\ pc' = IF FGt(h, Lit(-1, 1)) THEN "acceleration" ELSE "return"
    /\ UNCHANGED <<params, t, h, v, a, lists, result, kernel>>

\* the loop test as  while h > 1:
Test_EarlyExit ==
    /\ pc = "while"
    /\ Len(time) < MaxLen \/ ~FGt(h, Lit(1, 1))
    /\ pc' = IF FGt(h, Lit(1, 1)) THEN "acceleration" ELSE "return"
    /\ UNCHANGED <<params, t, h, v, a, lists, result, kernel>>

\* the loop test made after the body: the first iteration always runs
Test_DoWhile ==
    /\ pc = "while"
    /\ Len(time) < MaxLen \/ ~FGt(h, Zero)
    /\ pc' = IF FGt(h, Zero) \/ Len(time) = 0 THEN "acceleration" ELSE "return"
    /\ UNCHANGED <<params, t, h, v, a, lists, result, kernel>>

\* while h > 0:   (a run is followed until its lists hold MaxLen samples;
\* of the calls below only those from the great height get that far)
Test ==
    /\ pc = "while"
    /\ Len(time) < MaxLen \/ ~FGt(h, Zero)
    /\ pc' = IF FGt(h, Zero) THEN "acceleration" ELSE "return"
    /\ UNCHANGED <<params, t, h, v, a, lists, result, kernel>>

\* a = calculate_acceleration(v, k=k, mass=mass, gravity=gravity)
CalcAcceleration ==
    /\ pc = "acceleration"
    /\ a' = calculate_acceleration(v, k, mass, gravity)
    /\ pc' = "append_height"
    /\ UNCHANGED <<params, t, h, v, lists, result, kernel>>

\* the height recorded after the update instead of before it
AppendHeight_AfterUpdate ==
    /\ pc = "append_height"
    /\ height' = Append(height, update_state(t, h, v, a, dt)[2])
    /\ pc' = "append_velocity"
    /\ UNCHANGED <<params, t, h, v, a, time, velocity, result, kernel>>

\* height.append(h)
AppendHeight ==
    /\ pc = "append_height"
    /\ height' = Append(height, h)
    /\ pc' = "append_velocity"
    /\ UNCHANGED <<params, t, h, v, a, time, velocity, result, kernel>>

\* the velocity appended to the height list
AppendVelocity_WrongList ==
    /\ pc = "append_velocity"
    /\ height' = Append(height, v)
    /\ pc' = "append_time"
    /\ UNCHANGED <<params, t, h, v, a, time, velocity, result, kernel>>

\* velocity.append(v)
AppendVelocity ==
    /\ pc = "append_velocity"
    /\ velocity' = Append(velocity, v)
    /\ pc' = "append_time"
    /\ UNCHANGED <<params, t, h, v, a, time, height, result, kernel>>

\* the time recorded after the update instead of before it
AppendTime_AfterUpdate ==
    /\ pc = "append_time"
    /\ time' = Append(time, update_state(t, h, v, a, dt)[1])
    /\ pc' = "update"
    /\ UNCHANGED <<params, t, h, v, a, height, velocity, result, kernel>>

\* time.insert(0, t) for time.append(t)
AppendTime_Insert ==
    /\ pc = "append_time"
    /\ time' = <<t>> \o time
    /\ pc' = "update"
    /\ UNCHANGED <<params, t, h, v, a, height, velocity, result, kernel>>

\* time.append(t)
AppendTime ==
    /\ pc = "append_time"
    /\ time' = Append(time, t)
    /\ pc' = "update"
    /\ UNCHANGED <<params, t, h, v, a, height, velocity, result, kernel>>

\* the update assigned as  k, h, v = update_state(t, h, v, a, dt=dt)
UpdateState_AssignsK ==
    /\ pc = "update"
    /\ LET n == update_state(t, h, v, a, dt)
       IN  /\ k' = n[1]
           /\ h' = n[2]
           /\ v' = n[3]
    /\ pc' = "while"
    /\ UNCHANGED <<initial_height, dt, mass, gravity, t, a, lists, result, kernel>>

\* t, h, v = update_state(t, h, v, a, dt=dt)
UpdateState ==
    /\ pc = "update"
    /\ LET n == update_state(t, h, v, a, dt)
       IN  /\ t' = n[1]
           /\ h' = n[2]
           /\ v' = n[3]
    /\ pc' = "while"
    /\ UNCHANGED <<params, a, lists, result, kernel>>

\* the lists returned as height, time, velocity
Return_Swapped ==
    /\ pc = "return"
    /\ result' = <<height, time, velocity>>
    /\ pc' = "done"
    /\ UNCHANGED <<params, t, h, v, a, lists, kernel>>

\* return time, height, velocity
Return ==
    /\ pc = "return"
    /\ result' = <<time, height, velocity>>
    /\ pc' = "done"
    /\ UNCHANGED <<params, t, h, v, a, lists, kernel>>

\* cell 3, once the notebook's call has returned: t, y, vy = falling_mass(...)
AssignCell ==
    /\ pc = "done"
    /\ kernel.cell = 3
    /\ initial_height = Lit(20, 1) /\ k = Lit(35, 1000)
    /\ mass = Lit(1, 1) /\ dt = Lit(1, 10)
    /\ kernel' = run_cell(kernel, {"falling_mass"}, {"t", "y", "vy"})
    /\ UNCHANGED <<params, pc, t, h, v, a, lists, result>>

\* cell 4: the two plots of y and vy against t
PlotCell ==
    /\ pc = "done"
    /\ kernel.cell = 4
    /\ kernel' = run_cell(kernel, {"plt", "t", "y", "vy"}, {"fig", "ax1", "ax2"})
    /\ UNCHANGED <<params, pc, t, h, v, a, lists, result>>

\* cell 5: from projectile_package... import flying_mass, plot_xy
ImportCell ==
    /\ pc = "done"
    /\ kernel.cell = 5
    /\ kernel' = import_cell(kernel, "projectile_package", {"flying_mass", "plot_xy"})
    /\ UNCHANGED <<params, pc, t, h, v, a, lists, result>>

\* cell 6: t, x, y, vx, vy = flying_mass(10., 10., mass=1., k=0.035)
FlyingMassCell ==
    /\ pc = "done"
    /\ kernel.cell = 6
    /\ kernel' = run_cell(kernel, {"flying_mass"}, {"t", "x", "y", "vx", "vy"})
    /\ UNCHANGED <<params, pc, t, h, v, a, lists, result>>

\* cell 7: plot_xy(x, y)
PlotXYCell ==
    /\ pc = "done"
    /\ kernel.cell = 7
    /\ kernel' = run_cell(kernel, {"plot_xy", "x", "y"}, {})
    /\ UNCHANGED <<params, pc, t, h, v, a, lists, result>>

Next ==
    \/ Test
    \/ CalcAcceleration
    \/ AppendHeight
    \/ AppendVelocity
    \/ AppendTime
    \/ UpdateState
    \/ Return
    \/ AssignCell
    \/ PlotCell
    \/ ImportCell
    \/ FlyingMassCell
    \/ PlotXYCell

Spec == Init /\ [][Next]_vars

(***************************************************************************)
(* Properties                                                              *)
(***************************************************************************)
\* what one more iteration makes of the state <<tt, x, vel>>
step(tt, x, vel) ==
    update_state(tt, x, vel, calculate_acceleration(vel, k, mass, gravity), dt)

\* an iteration that leaves both the height and the velocity as they were:
\* the next (h, v) depends on (h, v) alone, so every later iteration does too
Stalled ==
    /\ FGt(h, Zero)
    /\ step(t, h, v)[2] = h
    /\ step(t, h, v)[3] = v

\* C1: falling_mass returns after finitely many iterations for any
\* initial_height > 0 and dt > 0 (k >= 0, mass > 0).  It returns only if no
\* iteration with h > 0 repeats the (h, v) it started from, so the claim
\* requires that the loop test is never reached in such a state.
C1_Terminates == ~(pc = "while" /\ Stalled)

\* C2: the three lists have equal length whenever an iteration starts and
\* when the function returns, and an iteration appends exactly one entry to
\* each of them, height first, then velocity, then time.
C2_EqualLengths ==
    /\ pc \in {"while", "acceleration", "append_height", "update", "return", "done"}
          => Len(height) = Len(time) /\ Len(velocity) = Len(time)
    /\ pc = "append_velocity"
          => Len(height) = Len(time) + 1 /\ Len(velocity) = Len(time)
    /\ pc = "append_time"
          => Len(height) = Len(time) + 1 /\ Len(velocity) = Len(time) + 1
    /\ pc = "done" => Len(result[1]) = Len(result[2]) /\ Len(result[2]) = Len(result[3])

C2_Witness == pc = "done" /\ Len(time) >= 3 /\ Len(height) = Len(time)

\* C3: the recorded times start at 0 and each is the one before plus dt,
\* strictly larger than it, whatever k, mass and initial_height are.
C3_TimeSpacing ==
    /\ Len(time) >= 1 => time[1] = Zero
    /\ \A i \in 1..(Len(time) - 1) :
          /\ time[i + 1] = FAdd(time[i], dt)
          /\ FGt(time[i + 1], time[i])

C3_Witness == pc = "done" /\ Len(time) >= 4 /\ FGt(k, Zero) /\ mass = Lit(2, 1)

\* C4: every recorded height is strictly greater than 0; the state that
\* crossed the ground is not recorded.
C4_HeightsPositive == \A i \in 1..Len(height) : FGt(height[i], Zero)

C4_Witness == pc = "done" /\ Len(height) >= 2 /\ FLt(h, Zero)

C6_InitialState ==
    (pc = "done" /\ FGt(initial_height, Zero)) =>
        /\ result = <<time, height, velocity>>
        /\ \A j \in 1..3 : Len(result[j]) >= 1
        /\ result[1][1] = Zero
        /\ result[2][1] = initial_height
        /\ result[3][1] = Zero

C6_Witness == pc = "done" /\ result # None /\ Len(result[2]) >= 1 /\ FGt(result[2][1], Zero)

\* C7: with k = 0 every recorded velocity is strictly below the one before,
\* for any mass and dt.
C7_FreeFallDecreasing ==
    k = Zero => \A i \in 1..(Len(velocity) - 1) : FLt(velocity[i + 1], velocity[i])

C7_Witness == k = Zero /\ pc = "done" /\ Len(velocity) >= 3 /\ mass = Lit(2, 1)

\* the closed form h0 - 0.5*|gravity|*t**2, evaluated in floats
closed_form(tt) ==
    FSub(initial_height, FMul(FMul(Half, FAbs(gravity)), FSquare(tt)))

\* the constant of the error bound: 4 m/s
ErrConst == Lit(4, 1)

\* C8: with k = 0 every recorded height is within a constant times dt of
\* the closed form h0 - 0.5*|gravity|*t^2 at the recorded time.
C8_ClosedForm ==
    k = Zero =>
        \A i \in 1..Len(time) :
            Len(height) >= i =>
                FLe(FAbs(FSub(height[i], closed_form(time[i]))), FMul(ErrConst, dt))

\* samples from this index on belong to the late part of a run
SettleLen == MaxLen - 6

\* within a tenth of |gravity| of no net acceleration, that is of
\* k*v^2 = mass*|gravity|, the terminal speed sqrt(mass*|gravity|/k)
NearTerminal(vel) ==
    FLe(FAbs(calculate_acceleration(vel, k, mass, gravity)),
        FMul(Lit(1, 10), FAbs(gravity)))

\* C9: with k > 0, from a great height the recorded speed comes to the
\* terminal speed as the run extends: the late samples are near it.
C9_ApproachesTerminal ==
    (FGt(k, Zero) /\ initial_height = Tall) =>
        \A i \in SettleLen..Len(velocity) : NearTerminal(velocity[i])

\* the call of notebook cell 3: falling_mass(20, k=0.035)
IsCell3Call ==
    /\ initial_height = Lit(20, 1)
    /\ k = Lit(35, 1000)
    /\ mass = Lit(1, 1)
    /\ dt = Lit(1, 10)

\* C10: falling_mass(20, k=0.035) returns non-empty lists; the heights start
\* at 20, and the last one is positive and the least of them.
C10_Example ==
    (IsCell3Call /\ pc = "done") =>
        /\ \A j \in 1..3 : Len(result[j]) >= 1
        /\ result[2][1] = Lit(20, 1)
        /\ LET hs == result[2]
               last == hs[Len(hs)]
           IN  /\ FGt(last, Zero)
               /\ \A i \in 1..Len(hs) : FLe(last, hs[i])

C10_Witness == IsCell3Call /\ pc = "done" /\ Len(height) >= 10

\* C11 as claimed: with mass = 0 a division-by-zero fault leaves
\* falling_mass, so that it never returns its lists.
C11_FaultPropagates == mass = Zero => result = None

\* C11 as amended: with mass = 0 and initial_height > 0 no fault is raised;
\* the acceleration is nan, the first update makes h and v nan, the loop
\* test fails and falling_mass returns one sample, the initial state, in
\* each list.
C11_NanReturn ==
    (mass = Zero /\ FGt(initial_height, Zero)) =>
        /\ pc \in {"append_height", "append_velocity", "append_time", "update"} => a = NaN
        /\ (pc \in {"return", "done"} \/ (pc = "while" /\ Len(time) > 0))
              => h = NaN /\ v = NaN /\ Len(time) = 1
        /\ pc = "done" => result = << <<Zero>>, <<initial_height>>, <<Zero>> >>

C11_Witness == mass = Zero /\ pc = "done" /\ result # None /\ Len(result[1]) = 1

\* C18: from initial_height <= 0 the loop body never runs and falling_mass
\* returns three empty lists.
C18_NoIteration ==
    ~FGt(initial_height, Zero) =>
        /\ pc \in {"while", "return", "done"}
        /\ a = None
        /\ lists = << <<>>, <<>>, <<>> >>
        /\ pc = "done" => result = << <<>>, <<>>, <<>> >>

C18_Witness ==
    /\ pc = "done"
    /\ FLe(initial_height, Zero)
    /\ result = << <<>>, <<>>, <<>> >>

\* falling_mass as a function of its arguments: the loop from the state s,
\* followed as far as the actions follow it
RECURSIVE iterate(_, _, _, _)
iterate(s, kk, m, stp) ==
    IF ~FGt(s.h, Zero) \/ Len(s.time) >= MaxLen THEN s
    ELSE LET acc == calculate_acceleration(s.v, kk, m, Lit(-981, 100))
             n == update_state(s.t, s.h, s.v, acc, stp)
         IN  iterate([t |-> n[1], h |-> n[2], v |-> n[3],
                      time |-> Append(s.time, s.t),
                      height |-> Append(s.height, s.h),
                      velocity |-> Append(s.velocity, s.v)], kk, m, stp)

falling_mass(h0, kk, m, stp) ==
    LET s == iterate([t |-> Zero, h |-> h0, v |-> Zero,
                      time |-> <<>>, height |-> <<>>, velocity |-> <<>>], kk, m, stp)
    IN  <<s.time, s.height, s.velocity>>

\* C12: with k = 0 the mass is not needed: the lists returned are those any
\* other mass > 0 gives for the same initial_height and dt.
C12_MassNotNeeded ==
    (pc = "done" /\ k = Zero /\ FGt(mass, Zero)) =>
        \A m2 \in Masses : falling_mass(initial_height, k, m2, dt) = result

\* C13: calculate_acceleration returns (mass*gravity - sign(v)*k*v^2)/mass;
\* with k > 0 and mass > 0 the drag's share of it is positive for v < 0,
\* negative for v > 0 and zero for v = 0; with k = 0 it is gravity for every v.
C13_Acceleration ==
    (pc \in {"append_height", "append_velocity", "append_time", "update"}
        /\ FGt(mass, Zero)) =>
        LET drag == FMul(FMul(sign(v), k), FSquare(v))
        IN  /\ a = FDiv(FSub(FMul(mass, gravity), drag), mass)
            /\ FGt(k, Zero) =>
                  /\ FLt(v, Zero) => FGt(FDiv(FNeg(drag), mass), Zero)
                  /\ FGt(v, Zero) => FLt(FDiv(FNeg(drag), mass), Zero)
                  /\ v = Zero => FDiv(FNeg(drag), mass) = Zero
            /\ k = Zero => a = gravity

\* C14: update_state(t, x, v, a, dt) returns t + dt, x + (v*dt + 0.5*a*dt^2)
\* and v + a*dt, the displacement taken with the velocity before its update.
C14_UpdateRule ==
    [][pc = "update" =>
          /\ t' = FAdd(t, dt)
          /\ h' = FAdd(h, FAdd(FMul(v, dt), FMul(FMul(Lit(1, 2), a), FMul(dt, dt))))
          /\ v' = FAdd(v, FMul(a, dt))]_vars

C14_Witness == pc = "while" /\ Len(time) >= 2 /\ FLt(v, Zero) /\ FLt(h, initial_height)

\* C15: an iteration computes the acceleration from the current velocity,
\* records the current (t, h, v) and then advances: each recorded sample
\* is update_state of the one before with calculate_acceleration of its
\* velocity, and what is recorded is the state before the update.
C15_IterationOrder ==
    /\ \A i \in 1..(Len(time) - 1) :
          <<time[i + 1], height[i + 1], velocity[i + 1]>> =
              update_state(time[i], height[i], velocity[i],
                  calculate_acceleration(velocity[i], k, mass, Lit(-981, 100)), dt)
    /\ pc \in {"append_height", "append_velocity", "append_time", "update"}
          => a = calculate_acceleration(v, k, mass, Lit(-981, 100))
    /\ pc = "update"
          => /\ Len(time) >= 1
             /\ time[Len(time)] = t
             /\ height[Len(height)] = h
             /\ velocity[Len(velocity)] = v

C15_Witness == pc = "update" /\ Len(time) >= 3 /\ FGt(k, Zero)

IsPrefix(s1, s2) == Len(s1) <= Len(s2) /\ SubSeq(s2, 1, Len(s1)) = s1

\* C16: the lists are append-only: a step leaves every entry already
\* recorded in place and at most adds the current t, h or v at the end.
C16_AppendOnly ==
    [][/\ IsPrefix(time, time') /\ IsPrefix(height, height')
       /\ IsPrefix(velocity, velocity')
       /\ Len(time') > Len(time) => time' = Append(time, t)
       /\ Len(height') > Len(height) => height' = Append(height, h)
       /\ Len(velocity') > Len(velocity) => velocity' = Append(velocity, v)]_vars

C16_Witness == pc = "while" /\ Len(time) >= 3 /\ Len(height) >= 3 /\ Len(velocity) >= 3

\* C19: with k > 0, mass > 0 and dt > 0 every recorded velocity v has
\* v <= 0 and k*v^2 <= mass*|gravity|.
C19_BoundedSpeed ==
    (FGt(k, Zero) /\ FGt(mass, Zero)) =>
        \A i \in 1..Len(velocity) :
            /\ FLe(velocity[i], Zero)
            /\ FLe(FMul(k, FSquare(velocity[i])), FMul(mass, FAbs(gravity)))

\* C20: k, mass, dt, initial_height and gravity = -9.81 never change; the
\* call of calculate_acceleration changes a alone, the call of update_state
\* changes t, h and v alone, and an append changes its list alone.
C20_Frame ==
    [][/\ params' = params
       /\ gravity = Lit(-981, 100)
       /\ pc = "acceleration" => UNCHANGED <<t, h, v, lists, result>>
       /\ pc = "append_height" => UNCHANGED <<t, h, v, a, time, velocity, result>>
       /\ pc = "append_velocity" => UNCHANGED <<t, h, v, a, time, height, result>>
       /\ pc = "append_time" => UNCHANGED <<t, h, v, a, height, velocity, result>>
       /\ pc = "update" => UNCHANGED <<a, lists, result>>
       /\ pc \in {"while", "return"} => UNCHANGED <<t, h, v, a, lists>>]_vars

C20_Witness == pc = "done" /\ Len(time) >= 3 /\ gravity = Lit(-981, 100) /\ FGt(k, Zero)

\* the cells executed so far that ended in an exception
failed == {i \in 1..Len(kernel.outcome) : kernel.outcome[i] # "ok"}

\* C17 as claimed: the notebook is a linear sequence of cell executions, two
\* of which fail: once the import of projectile_package has failed, the
\* cells that use flying_mass and plot_xy fail with NameError, and the cells
\* before the import complete.
C17_TwoFail ==
    (kernel.cell = 8 /\ kernel.outcome[5] # "ok") =>
        /\ Cardinality(failed) = 2
        /\ kernel.outcome[6] = "NameError"
        /\ kernel.outcome[7] = "NameError"
        /\ \A i \in 1..4 : kernel.outcome[i] = "ok"

\* C17 as amended: the cells are executed one after another in their order;
\* cells 1 to 4 complete, and three cells fail: the import of
\* projectile_package with ModuleNotFoundError, and the two cells after it,
\* which use flying_mass and plot_xy, with NameError.
C17_ThreeFail ==
    /\ kernel.cell = Len(kernel.outcome) + 1
    /\ IsPrefix(kernel.outcome,
                <<"ok", "ok", "ok", "ok", "ModuleNotFoundError", "NameError", "NameError">>)
    /\ kernel.cell = 8 => failed = {5, 6, 7}
    /\ {"flying_mass", "plot_xy", "x", "vx"} \cap kernel.names = {}

C17_Witness == kernel.cell = 8 /\ Cardinality(failed) = 3 /\ "vy" \in kernel.names

====
